---- MODULE Spec2Model ----
(***************************************************************************)
(* A model of openvpn_status.parser.LogParser and the record schema of     *)
(* openvpn_status.models.                                                  *)
(*                                                                         *)
(* A Python string is modelled as a sequence of atoms.  An atom is an      *)
(* indivisible run of characters ("HEADER", "Common Name", "_X"); the      *)
(* separators the parser looks at are atoms of their own: "," (the list    *)
(* separator), "\n" (the line separator), " " (whitespace), ":" and "/".   *)
(* strip, split and startswith are computed on these sequences.            *)
(***************************************************************************)
EXTENDS Integers, Sequences, FiniteSets, TLC

VARIABLES
    lines,        \* the list handed to LogParser.__init__ (self.lines iterates it)
    pos,          \* how many items iter(lines) has yielded
    _last_line,   \* self._last_line (NoLine models None)
    _rollback,    \* self._rollback
    pc,           \* where parse() is
    labels,       \* the label list of the section being read
    rows,         \* the dict the running comprehension has built so far
    status,       \* the Status under construction in _parse
    err,          \* the exception parse() raised, if any
    log           \* history: one entry per line the engine asked the cursor for

vars == <<lines, pos, _last_line, _rollback, pc, labels, rows, status, err, log>>

-----------------------------------------------------------------------------
(* Bounds *)

MaxLines == 4

\* calls made on a cursor that is driven directly
MaxCalls == 5

-----------------------------------------------------------------------------
(* Strings *)

list_separator == ","
line_separator == "\n"
terminator == <<"END">>
Whitespace == {" ", "\n"}
NoLine == <<>>

RECURSIVE lstrip(_)
lstrip(s) ==
    IF s # <<>> /\ Head(s) \in Whitespace THEN lstrip(Tail(s)) ELSE s

RECURSIVE rstrip(_)
rstrip(s) ==
    IF s # <<>> /\ s[Len(s)] \in Whitespace
    THEN rstrip(SubSeq(s, 1, Len(s) - 1))
    ELSE s

\* a strip that leaves the line as it is
strip_nothing(s) == s

strip(s) == rstrip(lstrip(s))

RECURSIVE split(_, _)
split(s, sep) ==
    IF \A i \in 1..Len(s) : s[i] # sep
    THEN <<s>>
    ELSE LET i == CHOOSE k \in 1..Len(s) :
                      s[k] = sep /\ \A j \in 1..(k - 1) : s[j] # sep
         IN  <<SubSeq(s, 1, i - 1)>> \o split(SubSeq(s, i + 1, Len(s)), sep)

startswith(s, prefix) ==
    Len(prefix) <= Len(s) /\ SubSeq(s, 1, Len(prefix)) = prefix

RECURSIVE join(_, _)
join(parts, sep) ==
    IF parts = <<>> THEN <<>>
    ELSE IF Len(parts) = 1 THEN parts[1]
    ELSE parts[1] \o <<sep>> \o join(Tail(parts), sep)

-----------------------------------------------------------------------------
(* Field values and converters (openvpn_status.utils, .descriptors) *)

Value(kind, val, aux) == [kind |-> kind, val |-> val, aux |-> aux]
None == Value("None", <<>>, <<>>)
ValueError(field) == Value("ValueError", field, <<>>)

Hosts == {<<"1.2.3.4">>, <<"10.8.0.2">>}
Numerals == {<<"100">>, <<"200">>, <<"300">>, <<"5">>, <<"24">>}
Timestamps == {<<"T1">>}

text_input(field) == Value("text", field, <<>>)

parse_peer(field) ==
    LET parts == split(field, ":")
    IN  IF parts[1] \notin Hosts THEN ValueError(field)
        ELSE IF Len(parts) = 1 THEN Value("peer", parts[1], <<>>)
        ELSE IF Len(parts) = 2 /\ parts[2] \in Numerals
             THEN Value("peer", parts[1], parts[2])
        ELSE ValueError(field)

parse_filesize(field) ==
    IF field \in Numerals THEN Value("filesize", field, <<>>)
    ELSE ValueError(field)

parse_time(field) ==
    IF field \in Timestamps THEN Value("time", field, <<>>)
    ELSE ValueError(field)

parse_vaddr(field) ==
    LET parts == split(field, "/")
    IN  IF parts[1] \in Hosts THEN Value("vaddr", parts[1], <<>>)
        ELSE ValueError(field)

input_type(conv, field) ==
    CASE conv = "parse_peer"     -> parse_peer(field)
      [] conv = "parse_filesize" -> parse_filesize(field)
      [] conv = "parse_time"     -> parse_time(field)
      [] conv = "parse_vaddr"    -> parse_vaddr(field)
      [] OTHER                   -> text_input(field)

-----------------------------------------------------------------------------
(* Record schema (openvpn_status.models) *)

LabelProperty(name, label, conv) ==
    [name |-> name, label |-> <<label>>, input_type |-> conv]

CLIENT_LIST == <<"CLIENT_LIST">>
ROUTING_TABLE == <<"ROUTING_TABLE">>

Client ==
    { LabelProperty("client_id", "Client ID", "text"),
      LabelProperty("common_name", "Common Name", "text"),
      LabelProperty("real_address", "Real Address", "parse_peer"),
      LabelProperty("bytes_received", "Bytes Received", "parse_filesize"),
      LabelProperty("bytes_sent", "Bytes Sent", "parse_filesize"),
      LabelProperty("connected_since", "Connected Since", "parse_time") }

Routing ==
    { LabelProperty("virtual_address", "Virtual Address", "parse_vaddr"),
      LabelProperty("common_name", "Common Name", "text"),
      LabelProperty("real_address", "Real Address", "parse_peer"),
      LabelProperty("last_ref", "Last Ref", "parse_time") }

Schema(cls) == IF cls = "Client" THEN Client ELSE Routing

\* cls(): every attribute unset
new_instance(cls) == [n \in {d.name : d \in Schema(cls)} |-> None]

\* text_type(x): the text of a str is itself, the text of None is "None"
text_type(v) == IF v.kind = "None" THEN <<"None">> ELSE v.val

-----------------------------------------------------------------------------
(* Ordered mappings (dict, OrderedDict) as sequences of key/value entries *)

dict_keys(d) == [i \in 1..Len(d) |-> d[i].key]

dict_has(d, k) == \E i \in 1..Len(d) : d[i].key = k

dict_get(d, k) == d[CHOOSE i \in 1..Len(d) : d[i].key = k].value

\* an assignment that keeps the value a key already has
dict_set_keep_first(d, k, v) ==
    IF dict_has(d, k) THEN d ELSE Append(d, [key |-> k, value |-> v])

\* an assignment that moves a key it overwrites behind the other keys
dict_set_move_to_end(d, k, v) ==
    Append(SelectSeq(d, LAMBDA e : e.key # k), [key |-> k, value |-> v])

dict_set(d, k, v) ==
    IF dict_has(d, k)
    THEN [i \in 1..Len(d) |-> IF d[i].key = k THEN [key |-> k, value |-> v] ELSE d[i]]
    ELSE Append(d, [key |-> k, value |-> v])

RECURSIVE dict_update(_, _)
dict_update(d, other) ==
    IF other = <<>> THEN d
    ELSE dict_update(dict_set(d, other[1].key, other[1].value), Tail(other))

Status == [client_list |-> <<>>, routing_table |-> <<>>]

-----------------------------------------------------------------------------
(* ParsingError *)

NoError == [kind |-> "none", args |-> <<>>]
ParsingError(kind, args) == [kind |-> kind, args |-> args]

-----------------------------------------------------------------------------
(* Line cursor: LogParser.__next__, rollback, fromstring *)

\* a search that starts over from the top of the input whatever was read
next_nonblank_from_top(ls, p) ==
    LET at == {i \in 1..Len(ls) : strip(ls[i]) # <<>>}
    IN  IF at = {} THEN 0 ELSE CHOOSE i \in at : \A m \in at : i <= m

\* the first index after p whose line is not blank, 0 when there is none
RECURSIVE next_nonblank(_, _)
next_nonblank(ls, p) ==
    IF p >= Len(ls) THEN 0
    ELSE IF strip(ls[p + 1]) # <<>> THEN p + 1
    ELSE next_nonblank(ls, p + 1)

\* an advance that does not keep the line it returns
LogParser_next_forgets_line ==
    IF _rollback
    THEN [stop |-> FALSE, line |-> _last_line, pos |-> pos,
          _rollback |-> FALSE, _last_line |-> _last_line]
    ELSE LET i == next_nonblank(lines, pos)
         IN  IF i = 0
             THEN [stop |-> TRUE, line |-> NoLine, pos |-> Len(lines),
                   _rollback |-> FALSE, _last_line |-> _last_line]
             ELSE [stop |-> FALSE, line |-> strip(lines[i]), pos |-> i,
                   _rollback |-> FALSE, _last_line |-> _last_line]

\* an advance that re-returns the last line and leaves the mark set
LogParser_next_keeps_mark ==
    IF _rollback
    THEN [stop |-> FALSE, line |-> _last_line, pos |-> pos,
          _rollback |-> TRUE, _last_line |-> _last_line]
    ELSE LET i == next_nonblank(lines, pos)
         IN  IF i = 0
             THEN [stop |-> TRUE, line |-> NoLine, pos |-> Len(lines),
                   _rollback |-> FALSE, _last_line |-> _last_line]
             ELSE [stop |-> FALSE, line |-> strip(lines[i]), pos |-> i,
                   _rollback |-> FALSE, _last_line |-> strip(lines[i])]

\* __next__: what the advance yields (stop = StopIteration) and the cursor after it
LogParser_next ==
    IF _rollback
    THEN [stop |-> FALSE, line |-> _last_line, pos |-> pos,
          _rollback |-> FALSE, _last_line |-> _last_line]
    ELSE LET i == next_nonblank(lines, pos)
         IN  IF i = 0
             THEN [stop |-> TRUE, line |-> NoLine, pos |-> Len(lines),
                   _rollback |-> FALSE, _last_line |-> _last_line]
             ELSE [stop |-> FALSE, line |-> strip(lines[i]), pos |-> i,
                   _rollback |-> FALSE, _last_line |-> strip(lines[i])]

\* a rollback() that leaves the flag clear
rollback_forgotten == FALSE

\* rollback(): the flag after the call
rollback == TRUE

fromstring(content) == split(strip(content), line_separator)

-----------------------------------------------------------------------------
(* expect_header, expect_list, _parse_fields, _parse, parse *)

\* the line matches the section header
header_match(line, header) ==
    startswith(line, <<"HEADER", list_separator>> \o header)

\* the labels with the section label dropped as well
header_labels_drop_two(line) == Tail(Tail(split(line, list_separator)))

\* the labels expect_header takes from a matching line
header_labels(line) == Tail(split(line, list_separator))

\* a header is refused unless two labels follow the section label
header_refused_below_three(lbls) == Len(lbls) < 3

\* the labels are refused
header_refused(lbls) == Len(lbls) = 1

\* expect_list raises, or _parse_fields raises on the count
list_error(n, lbls) ==
    \/ n.stop
    \/ Len(split(n.line, list_separator)) = 1
    \/ Len(split(n.line, list_separator)) # Len(lbls)

label_to_name(cls) ==
    [l \in {d.label : d \in Schema(cls)} |->
        (CHOOSE d \in Schema(cls) : d.label = l).name]

\* the plan with every index one too high
index_to_name_shifted(cls, lbls) ==
    [i \in {j + 1 : j \in {m \in 1..(Len(lbls) - 1) :
                                 lbls[m] \in DOMAIN label_to_name(cls)}} |->
        label_to_name(cls)[lbls[i - 1]]]

index_to_name(cls, lbls) ==
    [i \in {j \in 1..Len(lbls) : lbls[j] \in DOMAIN label_to_name(cls)} |->
        label_to_name(cls)[lbls[i]]]

\* LabelProperty.__set__: the converted value, or the ValueError that becomes
\* AssignmentValueError
descriptor_set(cls, name, field) ==
    input_type((CHOOSE d \in Schema(cls) : d.name = name).input_type, field)

\* the setattr loop of lines 144-146, from index i on: the instance, or the
\* first assignment that raised
RECURSIVE setattr_loop(_, _, _, _, _)
setattr_loop(cls, inst, plan, values, i) ==
    IF i > Len(values) THEN [ok |-> TRUE, instance |-> inst, error |-> None]
    ELSE IF i \notin DOMAIN plan THEN setattr_loop(cls, inst, plan, values, i + 1)
    ELSE LET v == descriptor_set(cls, plan[i], values[i])
         IN  IF v.kind = "ValueError"
             THEN [ok |-> FALSE, instance |-> inst, error |-> v]
             ELSE setattr_loop(cls, [inst EXCEPT ![plan[i]] = v], plan, values, i + 1)

decode_row(cls, lbls, values) ==
    setattr_loop(cls, new_instance(cls), index_to_name(cls, lbls), values, 1)

\* a ParsingError that drops what the converter said
parse_except_no_message(e) == ParsingError("expected valid format", <<>>)

\* parse(): AssignmentValueError becomes ParsingError
parse_except(e) == ParsingError("expected valid format", e.val)

Event(op, section, n, outcome) ==
    [op |-> op, section |-> section, stop |-> n.stop, line |-> n.line,
     pos |-> n.pos, outcome |-> outcome]

SetCursor(n, flag) ==
    /\ pos' = n.pos
    /\ _last_line' = n._last_line
    /\ _rollback' = flag

\* one turn of expect_header's loop
expect_header(header, at, then) ==
    /\ pc = at
    /\ LET n == LogParser_next
       IN  /\ SetCursor(n, n._rollback)
           /\ IF n.stop
              THEN /\ pc' = "raised"
                   /\ err' = ParsingError("expected header but got end of input", header)
                   /\ log' = Append(log, Event("expect_header", header, n, "raise"))
                   /\ UNCHANGED <<labels, rows>>
              ELSE IF header_match(n.line, header)
              THEN IF header_refused(header_labels(n.line))
                   THEN /\ pc' = "raised"
                        /\ err' = ParsingError("expected list of label", n.line)
                        /\ log' = Append(log, Event("expect_header", header, n, "raise"))
                        /\ UNCHANGED <<labels, rows>>
                   ELSE /\ pc' = then
                        /\ labels' = header_labels(n.line)
                        /\ rows' = <<>>
                        /\ log' = Append(log, Event("expect_header", header, n, "header"))
                        /\ UNCHANGED err
              ELSE /\ log' = Append(log, Event("expect_header", header, n, "skip"))
                   /\ UNCHANGED <<pc, labels, rows, err>>
    /\ UNCHANGED <<lines, status>>

\* one turn of _parse_fields' loop, with the caller's use of what it yields
parse_fields(cls, header, at, then) ==
    /\ pc = at
    /\ LET n == LogParser_next
       IN  IF list_error(n, labels)
           THEN /\ SetCursor(n, rollback)
                /\ pc' = then
                /\ status' = IF cls = "Client"
                             THEN [status EXCEPT !.client_list = dict_update(@, rows)]
                             ELSE [status EXCEPT !.routing_table = dict_update(@, rows)]
                /\ log' = Append(log, Event("expect_list", header, n, "end"))
                /\ UNCHANGED <<rows, err>>
           ELSE LET r == decode_row(cls, labels, split(n.line, list_separator))
                IN  /\ SetCursor(n, n._rollback)
                    /\ IF r.ok
                       THEN /\ rows' = dict_set(rows, text_type(r.instance.common_name),
                                                r.instance)
                            /\ log' = Append(log, Event("expect_list", header, n, "row"))
                            /\ UNCHANGED <<pc, err>>
                       ELSE /\ pc' = "raised"
                            /\ err' = parse_except(r.error)
                            /\ log' = Append(log, Event("expect_list", header, n, "raise"))
                            /\ UNCHANGED rows
                    /\ UNCHANGED status
    /\ UNCHANGED <<lines, labels>>

ClientHeader == expect_header(CLIENT_LIST, "client_header", "client_rows")
ClientRows == parse_fields("Client", CLIENT_LIST, "client_rows", "routing_header")
RoutingHeader == expect_header(ROUTING_TABLE, "routing_header", "routing_rows")
RoutingRows == parse_fields("Routing", ROUTING_TABLE, "routing_rows", "returned")

-----------------------------------------------------------------------------
(* Inputs *)

csv(fields) == join([i \in 1..Len(fields) |-> <<fields[i]>>], list_separator)

\* the documented format
HC6 == csv(<<"HEADER", "CLIENT_LIST", "Common Name", "Real Address",
             "Bytes Received", "Bytes Sent", "Connected Since">>)
HC7 == csv(<<"HEADER", "CLIENT_LIST", "Common Name", "Real Address",
             "Bytes Received", "Bytes Sent", "Connected Since", "Client ID">>)
RowC(name, received) ==
    csv(<<"CLIENT_LIST", name>>) \o <<",", "1.2.3.4", ":", "5", ",">>
        \o csv(<<received, "200", "T1">>)
RCalice == RowC("alice", "100")
RCalice2 == RowC("alice", "300")
RCbob == RowC("bob", "100")
RCabc == RowC("alice", "abc")
RC7alice == RCalice \o <<",", "7">>
HR == csv(<<"HEADER", "ROUTING_TABLE", "Virtual Address", "Common Name",
            "Real Address", "Last Ref">>)
RowR(name, ref) ==
    <<"ROUTING_TABLE", ",", "10.8.0.2", "/", "24", ",", name, ",",
      "1.2.3.4", ":", "5", ",", ref>>
RRalice == RowR("alice", "T1")
RRbad == RowR("alice", "never")

\* whole documents in the documented format, with and without Client ID
DocLines == {HC6, HC7, RCalice, RC7alice, HR, RRalice, RRbad}

\* a Client section with rows that repeat, differ and fail
ClientLines == {HC6, RCalice, RCalice2, RCbob, RCabc}

\* short headers and lines that are no part of a section
HB == csv(<<"HEADER", "CLIENT_LIST", "Common Name">>)
H1 == csv(<<"HEADER", "CLIENT_LIST">>)
HX == <<"HEADER", ",", "CLIENT_LIST", "_X", ",", "Common Name">>
HU == csv(<<"HEADER", "CLIENT_LIST", "Common Name", "Username">>)
HRs == csv(<<"HEADER", "ROUTING_TABLE", "Common Name">>)
HRX == <<"HEADER", ",", "ROUTING_TABLE", "_X", ",", "Common Name", ",", "Username">>
Row2 == csv(<<"CLIENT_LIST", "alice">>)
Blank == <<" ">>
PaddedEnd == <<" ">> \o terminator \o <<" ">>

\* headers the engine refuses, skips or takes by their prefix, and blank lines
HeaderLines == {HB, H1, HX, Row2, Blank, PaddedEnd}

\* short Client and Routing sections, one after the other in either order
ShortLines == {HB, HU, HRs, HRX, Row2, PaddedEnd}

RECURSIVE SeqsUpTo(_, _)
SeqsUpTo(S, n) ==
    IF n = 0 THEN {<<>>}
    ELSE LET shorter == SeqsUpTo(S, n - 1)
         IN  shorter \cup {Append(s, x) : s \in {t \in shorter : Len(t) = n - 1}, x \in S}

RawInputs ==
    SeqsUpTo(DocLines, MaxLines) \cup SeqsUpTo(ClientLines, MaxLines)
        \cup SeqsUpTo(HeaderLines, MaxLines) \cup SeqsUpTo(ShortLines, MaxLines)

\* the parser is built from a list of lines, or from a text by fromstring
Inputs == RawInputs \cup {fromstring(join(raw, line_separator)) : raw \in RawInputs}

-----------------------------------------------------------------------------
(* Specification *)

Init ==
    /\ lines \in Inputs
    /\ pos = 0
    /\ _last_line = NoLine
    /\ _rollback = FALSE
    /\ pc = "client_header"
    /\ labels = <<>>
    /\ rows = <<>>
    /\ status = Status
    /\ err = NoError
    /\ log = <<>>

Next ==
    \/ ClientHeader
    \/ ClientRows
    \/ RoutingHeader
    \/ RoutingRows

Spec == Init /\ [][Next]_vars

-----------------------------------------------------------------------------
(* The cursor driven directly: __next__ and rollback() called in any order *)

CursorLines == {HB, Row2, Blank, PaddedEnd}

CursorInputs ==
    SeqsUpTo(CursorLines, MaxLines)
        \cup {fromstring(join(raw, line_separator)) :
                  raw \in SeqsUpTo(CursorLines, MaxLines)}

CursorInit ==
    /\ lines \in CursorInputs
    /\ pos = 0
    /\ _last_line = NoLine
    /\ _rollback = FALSE
    /\ pc = "cursor"
    /\ labels = <<>>
    /\ rows = <<>>
    /\ status = Status
    /\ err = NoError
    /\ log = <<>>

\* next(parser)
CursorAdvance ==
    /\ pc = "cursor"
    /\ Len(log) < MaxCalls
    /\ LET n == LogParser_next
       IN  /\ SetCursor(n, n._rollback)
           /\ log' = Append(log, Event("next", <<>>, n,
                                       IF n.stop THEN "stop" ELSE "line"))
    /\ UNCHANGED <<lines, pc, labels, rows, status, err>>

\* parser.rollback()
CursorRollback ==
    /\ pc = "cursor"
    /\ Len(log) < MaxCalls
    /\ _rollback' = rollback
    /\ log' = Append(log, [op |-> "rollback", section |-> <<>>, stop |-> FALSE,
                           line |-> NoLine, pos |-> pos, outcome |-> "mark"])
    /\ UNCHANGED <<lines, pos, _last_line, pc, labels, rows, status, err>>

CursorNext ==
    \/ CursorAdvance
    \/ CursorRollback

CursorSpec == CursorInit /\ [][CursorNext]_vars

-----------------------------------------------------------------------------
(* What the properties read from the history *)

Finished == pc \in {"returned", "raised"}

Fields(line) == split(line, list_separator)

Events == 1..Len(log)

\* the event is a turn of the row loop that got a line
RowTurn(i) == log[i].op = "expect_list" /\ ~log[i].stop

\* the header event of the section whose rows event i reads
HeaderOf(i) ==
    CHOOSE j \in 1..i :
        /\ log[j].outcome = "header"
        /\ \A m \in (j + 1)..i : log[m].outcome # "header"

\* the column count of that section: the fields of its header line after the tag
WidthOf(i) == Len(Fields(log[HeaderOf(i)].line)) - 1

ClassOf(section) == IF section = CLIENT_LIST THEN "Client" ELSE "Routing"

-----------------------------------------------------------------------------
(* C1: Scenario A.  For the documented input made of the CLIENT_LIST header, *)
(* one row for alice, the ROUTING_TABLE header and one routing row for      *)
(* alice, with or without the Client ID column, parse returns a Status      *)
(* whose client_list and routing_table each hold exactly the key alice, and *)
(* the ROUTING_TABLE header line is not decoded as a client row.            *)

ScenarioA_ClientID == <<HC7, RC7alice, HR, RRalice>>
ScenarioA_NoClientID == <<HC6, RCalice, HR, RRalice>>

ScenarioA_Result ==
    /\ pc = "returned"
    /\ dict_keys(status.client_list) = << <<"alice">> >>
    /\ dict_keys(status.routing_table) = << <<"alice">> >>
    /\ \A i \in Events :
           (log[i].op = "expect_list" /\ log[i].section = CLIENT_LIST
               /\ log[i].line = HR) => log[i].outcome = "end"

\* C1: on either variant of the Scenario A input parse ends by returning the
\* Status with the one key alice in both mappings
C1_ScenarioA ==
    (lines \in {ScenarioA_ClientID, ScenarioA_NoClientID} /\ Finished)
        => ScenarioA_Result

\* the same for the variant with the Client ID column alone
C1_ScenarioA_ClientID ==
    (lines = ScenarioA_ClientID /\ Finished) => ScenarioA_Result

-----------------------------------------------------------------------------
(* C2: Row/section boundary.  After a section header with k labels, every   *)
(* following line with exactly k fields is taken as a row of the section;   *)
(* the first line with another field count ends the section without an      *)
(* error, is not consumed, and is the first line the next expect_header     *)
(* examines.                                                                *)

C2_RowSectionBoundary ==
    \A i \in Events :
        RowTurn(i) =>
            IF Len(Fields(log[i].line)) = WidthOf(i)
            THEN log[i].outcome \in {"row", "raise"}
            ELSE /\ log[i].outcome = "end"
                 /\ i = Len(log) => (err = NoError /\ pc # "raised" /\ _rollback
                                        /\ _last_line = log[i].line)
                 /\ i < Len(log) =>
                        /\ log[i + 1].op = "expect_header"
                        /\ ~log[i + 1].stop
                        /\ log[i + 1].line = log[i].line

\* two rows were taken, a third line ended the Client section and the header
\* scan for the Routing section examined it
C2_Witness ==
    \E i \in Events :
        /\ i > 2 /\ i < Len(log)
        /\ RowTurn(i) /\ log[i].outcome = "end"
        /\ log[i - 1].outcome = "row" /\ log[i - 2].outcome = "row"
        /\ log[i + 1].op = "expect_header" /\ log[i + 1].line = log[i].line

-----------------------------------------------------------------------------
(* C3: Overwrite-by-key.  Once a section has ended, its mapping has exactly *)
(* one entry per distinct common name among the rows consumed in it, and    *)
(* the entry of a common name holds the values of the last row with it.     *)

Sections == {CLIENT_LIST, ROUTING_TABLE}

Mapping(section) ==
    IF section = CLIENT_LIST THEN status.client_list ELSE status.routing_table

SectionEnded(section) ==
    \E i \in Events :
        log[i].op = "expect_list" /\ log[i].section = section /\ log[i].outcome = "end"

RowsOf(section) ==
    {i \in Events : log[i].op = "expect_list" /\ log[i].section = section
                        /\ log[i].outcome = "row"}

\* the labels of the section row i belongs to
LabelsOf(i) == Tail(Fields(log[HeaderOf(i)].line))

\* the common name of row i: the field under the last Common Name label
CommonNameOf(i) ==
    LET at == {j \in 1..Len(LabelsOf(i)) : LabelsOf(i)[j] = <<"Common Name">>}
    IN  IF at = {} THEN <<"None">>
        ELSE Fields(log[i].line)[CHOOSE j \in at : \A m \in at : m <= j]

RecordOf(i) ==
    decode_row(ClassOf(log[i].section), LabelsOf(i), Fields(log[i].line)).instance

LastRowNamed(section, name) ==
    CHOOSE i \in RowsOf(section) :
        /\ CommonNameOf(i) = name
        /\ \A m \in RowsOf(section) : CommonNameOf(m) = name => m <= i

\* C3: one entry per distinct common name, holding the last row with that name
C3_OverwriteByKey ==
    \A section \in Sections :
        SectionEnded(section) =>
            LET m == Mapping(section)
                names == {CommonNameOf(i) : i \in RowsOf(section)}
            IN  /\ Len(m) = Cardinality(names)
                /\ {m[j].key : j \in 1..Len(m)} = names
                /\ \A name \in names :
                       dict_get(m, name) = RecordOf(LastRowNamed(section, name))

\* two rows for alice with different byte counts were consumed and the
\* Client mapping holds one entry, with the second row's count
C3_Witness ==
    /\ SectionEnded(CLIENT_LIST)
    /\ \E i, j \in RowsOf(CLIENT_LIST) :
           i < j /\ log[i].line = RCalice /\ log[j].line = RCalice2
               /\ \A m \in RowsOf(CLIENT_LIST) : m <= j
    /\ Len(status.client_list) = 1
    /\ dict_get(status.client_list, <<"alice">>).bytes_received.val = <<"300">>

-----------------------------------------------------------------------------
(* C4: End-of-input mid-section.  If the input is exhausted while the rows  *)
(* of a section are being read, parse raises ParsingError and returns no    *)
(* Status.                                                                  *)

ExhaustedInRows ==
    \E i \in Events : log[i].op = "expect_list" /\ log[i].stop

\* C4: a parse that ran out of input while reading rows ends by raising
C4_EndOfInputMidSection ==
    (ExhaustedInRows /\ Finished) => pc = "raised"

-----------------------------------------------------------------------------
(* C5: Scenario D.  For every input that holds a CLIENT_LIST header, any    *)
(* number of valid client rows and no line that is a ROUTING_TABLE header,  *)
(* parse raises ParsingError saying that the ROUTING_TABLE header was       *)
(* expected and the input ended; it returns no Status.                      *)

\* the line is the header of the section: its second field is the label
IsHeader(line, header) ==
    /\ Len(Fields(line)) >= 3
    /\ Fields(line)[1] = <<"HEADER">>
    /\ Fields(line)[2] = header

IsBlank(line) == \A i \in 1..Len(line) : line[i] \in Whitespace

ValidClientRow(line, header_line) ==
    /\ Len(Fields(line)) = Len(Fields(header_line)) - 1
    /\ decode_row("Client", Tail(Fields(header_line)), Fields(line)).ok

\* the input is a Client section (and lines that are no rows of it) with no
\* ROUTING_TABLE header anywhere
ScenarioD ==
    /\ \E h \in 1..Len(lines) :
           /\ IsHeader(strip(lines[h]), CLIENT_LIST)
           /\ \A i \in 1..(h - 1) : IsBlank(lines[i])
           /\ \A i \in (h + 1)..Len(lines) :
                  \/ IsBlank(lines[i])
                  \/ ValidClientRow(strip(lines[i]), strip(lines[h]))
                  \/ ~IsHeader(strip(lines[i]), CLIENT_LIST)
                         /\ Len(Fields(strip(lines[i])))
                                # Len(Fields(strip(lines[h]))) - 1
    /\ \A i \in 1..Len(lines) : ~IsHeader(strip(lines[i]), ROUTING_TABLE)

\* C5: on a Scenario D input parse ends by raising "expected ROUTING_TABLE
\* but got end of input"
C5_ScenarioD ==
    (ScenarioD /\ Finished) =>
        /\ pc = "raised"
        /\ err = ParsingError("expected header but got end of input", ROUTING_TABLE)

-----------------------------------------------------------------------------
(* C6: Scenario B, malformed header.                                        *)

\* the event is the line expect_header matched
Matched(i) ==
    log[i].op = "expect_header" /\ ~log[i].stop /\ log[i].outcome # "skip"

\* C6 as claimed: when the first matching CLIENT_LIST header is exactly
\* HEADER,CLIENT_LIST,Common Name, parse raises ParsingError; and expect_header
\* fails whenever the label list it takes from the header has fewer than 2
\* entries.
C6_ScenarioB ==
    \A i \in Events :
        Matched(i) =>
            /\ (log[i].section = CLIENT_LIST /\ log[i].line = HB /\ Finished)
                   => pc = "raised"
            /\ Len(Fields(log[i].line)) - 1 < 2 => log[i].outcome = "raise"

\* C6 as amended: expect_header fails exactly when the matched header has
\* fewer than 2 fields after the HEADER tag, that is when no column label
\* follows the section label (HEADER,CLIENT_LIST), and parse then raises
\* ParsingError naming the line; HEADER,CLIENT_LIST,Common Name is accepted
\* with the labels CLIENT_LIST, Common Name.
C6_MalformedHeader ==
    \A i \in Events :
        Matched(i) =>
            /\ log[i].outcome = "raise" <=> Len(Fields(log[i].line)) - 1 < 2
            /\ log[i].outcome = "raise" =>
                   /\ i = Len(log)
                   /\ pc = "raised"
                   /\ err = ParsingError("expected list of label", log[i].line)
            /\ (log[i].line = HB /\ i = Len(log)) =>
                   /\ pc = "client_rows"
                   /\ labels = <<CLIENT_LIST, <<"Common Name">> >>

\* HEADER,CLIENT_LIST was the first matching header and parse raised
C6_Witness ==
    /\ pc = "raised"
    /\ log # <<>>
    /\ Matched(Len(log))
    /\ log[Len(log)].line = H1
    /\ log[Len(log)].section = CLIENT_LIST

-----------------------------------------------------------------------------
(* C7: Converter failure is fatal.  If a converter rejects a field of a row *)
(* that is being decoded, in either section, parse raises ParsingError with *)
(* a message made from the converter's error; nothing is read after it and  *)
(* no Status is returned.                                                   *)

Descriptor(cls, label) == CHOOSE d \in Schema(cls) : d.label = label

\* the fields of row i that the converter of their column rejects
RejectedIn(i) ==
    LET cls == ClassOf(log[i].section)
        known == {j \in 1..Len(LabelsOf(i)) :
                      LabelsOf(i)[j] \in {d.label : d \in Schema(cls)}}
    IN  {Fields(log[i].line)[j] : j \in
            {m \in known :
                 input_type(Descriptor(cls, LabelsOf(i)[m]).input_type,
                            Fields(log[i].line)[m]).kind = "ValueError"}}

RowShaped(i) == RowTurn(i) /\ Len(Fields(log[i].line)) = WidthOf(i)

\* C7: a row with a rejected field is the last line read, and parse raised
\* with the rejected field in its message
C7_ConverterFailureFatal ==
    \A i \in Events :
        (RowShaped(i) /\ RejectedIn(i) # {}) =>
            /\ i = Len(log)
            /\ pc = "raised"
            /\ err.kind = "expected valid format"
            /\ err.args \in RejectedIn(i)

\* a Routing row was rejected after the Client section had been decoded
C7_Witness ==
    /\ pc = "raised"
    /\ RowsOf(CLIENT_LIST) # {}
    /\ SectionEnded(CLIENT_LIST)
    /\ log[Len(log)].section = ROUTING_TABLE
    /\ log[Len(log)].line = RRbad
    /\ err.args = <<"never">>

-----------------------------------------------------------------------------
(* C8: Round-trip labels.  In every row consumed under a header with the    *)
(* labels L1..Ln an attribute is assigned if and only if its schema label   *)
(* is among L1..Ln, and then from the field at that label's position; a     *)
(* field under a label the schema does not know touches no attribute, and   *)
(* an attribute whose label is missing keeps its default and raises nothing.*)

ExpectedRecord(cls, lbls, values) ==
    [n \in {d.name : d \in Schema(cls)} |->
        LET d == CHOOSE x \in Schema(cls) : x.name = n
            at == {j \in 1..Len(lbls) : lbls[j] = d.label}
        IN  IF at = {} THEN None
            ELSE input_type(d.input_type,
                            values[CHOOSE j \in at : \A m \in at : m <= j])]

\* C8: a row none of whose mapped fields is rejected is consumed, and its
\* record is the one the labels prescribe
C8_RoundTripLabels ==
    \A i \in Events :
        /\ (RowShaped(i) /\ RejectedIn(i) = {}) => log[i].outcome = "row"
        /\ (log[i].outcome = "row" /\ i = Len(log)) =>
               LET want == ExpectedRecord(ClassOf(log[i].section), labels,
                                          Fields(log[i].line))
               IN  /\ dict_has(rows, text_type(want.common_name))
                   /\ dict_get(rows, text_type(want.common_name)) = want

\* a row was consumed under a header that has a label the schema does not
\* know and lacks the Client ID label: client_id is unset, the rest assigned
C8_Witness ==
    /\ pc = "client_rows"
    /\ log # <<>>
    /\ log[Len(log)].outcome = "row"
    /\ log[Len(log)].line = RCalice
    /\ <<"Client ID">> \notin {labels[j] : j \in 1..Len(labels)}
    /\ labels[1] = CLIENT_LIST
    /\ dict_get(rows, <<"alice">>).client_id = None
    /\ dict_get(rows, <<"alice">>).bytes_received = Value("filesize", <<"100">>, <<>>)

-----------------------------------------------------------------------------
(* C9: expect_header accepts a line as the header of a section only if its  *)
(* first field is HEADER and its second field equals the section label; a   *)
(* line whose second field only begins with the label is skipped.           *)

C9_ExactHeaderMatch ==
    \A i \in Events :
        Matched(i) =>
            /\ Len(Fields(log[i].line)) >= 2
            /\ Fields(log[i].line)[1] = <<"HEADER">>
            /\ Fields(log[i].line)[2] = log[i].section

-----------------------------------------------------------------------------
(* C10: the label list and the row test.                                    *)

DropFirst(fields, n) == [j \in 1..(Len(fields) - n) |-> fields[j + n]]

InRows == pc \in {"client_rows", "routing_rows"}

LabelsAndRows(dropped) ==
    /\ InRows =>
           labels = DropFirst(Fields(log[HeaderOf(Len(log))].line), dropped)
    /\ \A i \in Events :
           RowTurn(i) =>
               (log[i].outcome \in {"row", "raise"}
                    <=> Len(Fields(log[i].line))
                            = Len(DropFirst(Fields(log[HeaderOf(i)].line), dropped)))

\* C10 as claimed: the label list of a matched header is the header's fields
\* without the first two, in order, and a following line is a row of the
\* section exactly when it has as many fields as that list.
C10_LabelsDropTwo == LabelsAndRows(2)

\* C10 as amended: the label list of a matched header is the header's fields
\* without the first one (the HEADER tag), in order, so that it begins with
\* the section label; a following line is a row of the section exactly when
\* it has as many fields as that list.
C10_LabelsDropTag == LabelsAndRows(1)

\* under the documented Client header a six-field line was taken as a row and
\* the engine holds six labels, CLIENT_LIST first
C10_Witness ==
    /\ pc = "client_rows"
    /\ log[HeaderOf(Len(log))].line = HC6
    /\ Len(labels) = Len(Fields(HC6)) - 1
    /\ labels[1] = CLIENT_LIST
    /\ log[Len(log)].outcome = "row"
    /\ Len(Fields(log[Len(log)].line)) = Len(labels)

-----------------------------------------------------------------------------
(* C11: Line Cursor rollback.  The first advance after one or more rollback *)
(* marks returns the line the most recent advance returned and takes        *)
(* nothing from the underlying lines; the advance after it returns the next *)
(* non-blank line not yet read, or signals exhaustion: one line is          *)
(* re-presented per rollback however many marks were set.                   *)

\* the non-blank lines of the input, stripped, in input order
RECURSIVE NonBlank(_)
NonBlank(ls) ==
    IF ls = <<>> THEN <<>>
    ELSE IF IsBlank(Head(ls)) THEN NonBlank(Tail(ls))
    ELSE <<strip(Head(ls))>> \o NonBlank(Tail(ls))

Advances == {i \in Events : log[i].op = "next"}

\* advance i comes right after a rollback mark
AfterMark(i) == i > 1 /\ log[i - 1].op = "rollback"

\* the advances up to event i that returned a line not returned before
FreshUpTo(i) ==
    {j \in Advances : j <= i /\ ~log[j].stop /\ ~AfterMark(j)}

\* the last advance before event i that returned a line
ReturnedBefore(i) == {j \in Advances : j < i /\ ~log[j].stop}

LastReturnedBefore(i) ==
    CHOOSE j \in ReturnedBefore(i) : \A m \in ReturnedBefore(i) : m <= j

\* the cursor position before event i
PosBefore(i) ==
    IF Advances \cap 1..(i - 1) = {} THEN 0
    ELSE log[CHOOSE j \in Advances \cap 1..(i - 1) :
                 \A m \in Advances \cap 1..(i - 1) : m <= j].pos

C11_Rollback ==
    \A i \in Advances :
        /\ (AfterMark(i) /\ ReturnedBefore(i) # {}) =>
               /\ ~log[i].stop
               /\ log[i].line = log[LastReturnedBefore(i)].line
               /\ log[i].pos = PosBefore(i)
        /\ (~AfterMark(i) /\ i > 1 /\ log[i - 1].op = "next"
                /\ AfterMark(i - 1)) =>
               LET read == Cardinality(FreshUpTo(i - 1))
               IN  IF read < Len(NonBlank(lines))
                   THEN ~log[i].stop /\ log[i].line = NonBlank(lines)[read + 1]
                   ELSE log[i].stop

\* a line was returned, two marks were set, the line was returned again and
\* the advance after that returned the following line
C11_Witness ==
    /\ Len(log) = 5
    /\ log[1].op = "next" /\ ~log[1].stop
    /\ log[2].op = "rollback" /\ log[3].op = "rollback"
    /\ log[4].op = "next" /\ log[4].line = log[1].line
    /\ log[5].op = "next" /\ ~log[5].stop /\ log[5].line # log[4].line

-----------------------------------------------------------------------------
(* C12: combined error at end of input.  When reading a section's rows      *)
(* fails on the shape of a row and the input has ended, parse raises one    *)
(* ParsingError whose messages open with those of the shape error.          *)

C12_CombinedError ==
    \A i \in Events :
        (log[i].op = "expect_list" /\ log[i].stop) =>
            /\ pc = "raised"
            /\ err.kind = "expected list but got end of input"

-----------------------------------------------------------------------------
(* C13: Line Cursor advance.  Every line returned by an advance that is not *)
(* a re-return after rollback is non-empty and has no whitespace at either  *)
(* end; the lines returned are the non-blank input lines in input order,    *)
(* none skipped; each input line is pulled from the source at most once.    *)

Trimmed(line) ==
    /\ line # <<>>
    /\ line[1] \notin Whitespace
    /\ line[Len(line)] \notin Whitespace

\* line is raw without the whitespace around it
CoreOf(raw, line) ==
    \E i \in 1..Len(raw) :
        /\ i + Len(line) - 1 <= Len(raw)
        /\ SubSeq(raw, i, i + Len(line) - 1) = line
        /\ \A k \in 1..(i - 1) : raw[k] \in Whitespace
        /\ \A k \in (i + Len(line))..Len(raw) : raw[k] \in Whitespace

C13_Advance ==
    \A i \in Advances :
        LET before == PosBefore(i)
            at == log[i].pos
        IN  /\ at >= before
            /\ (~AfterMark(i) /\ ~log[i].stop) =>
                   /\ Trimmed(log[i].line)
                   /\ at \in (before + 1)..Len(lines)
                   /\ CoreOf(lines[at], log[i].line)
                   /\ \A q \in (before + 1)..(at - 1) : IsBlank(lines[q])
            /\ (~AfterMark(i) /\ log[i].stop) =>
                   \A q \in (before + 1)..Len(lines) : IsBlank(lines[q])

\* a blank line was passed over, a padded line was returned trimmed and the
\* end of the input was met
C13_Witness ==
    /\ \E i \in Advances :
           /\ ~log[i].stop /\ ~AfterMark(i)
           /\ log[i].pos > PosBefore(i) + 1
           /\ lines[log[i].pos] # log[i].line
    /\ \E i \in Advances : log[i].stop /\ ~AfterMark(i)

-----------------------------------------------------------------------------
(* C14: termination.  For every finite input one call of parse finishes,    *)
(* returning a Status or raising ParsingError: the header scan, the row     *)
(* loop and the rollback take a number of steps bounded by the input.       *)

\* every step is one advance of the cursor: each input line once, one line
\* re-returned after the Client section, and end of input met at most twice
StepBound == Len(log) <= Len(lines) + 3

\* parse is at a step of _parse: each of them is guarded by its place alone
Running ==
    pc \in {"client_header", "client_rows", "routing_header", "routing_rows"}

\* every step adds one event, the events are bounded by the input, and a
\* parse that has not finished always has a step to take
C14_Termination == StepBound /\ (Finished \/ Running)

\* a parse that skipped a line, read a row, rolled back and came to its end
C14_Witness ==
    /\ Finished
    /\ \E i \in Events : log[i].outcome = "skip"
    /\ \E i \in Events : log[i].outcome = "row"
    /\ \E i \in Events : log[i].outcome = "end" /\ ~log[i].stop
    /\ Len(log) = Len(lines) + 1

-----------------------------------------------------------------------------
(* C15: section order.  The Routing section is searched for only after the  *)
(* Client section has ended and the header scan only moves forward; a       *)
(* ROUTING_TABLE header before the CLIENT_LIST header is skipped and adds   *)
(* nothing to the routing table, so an input whose only ROUTING_TABLE       *)
(* header precedes the CLIENT_LIST header makes parse raise ParsingError.   *)

\* the input line is a header line of the section, whatever follows its label
HeaderLine(line, header) ==
    /\ Len(Fields(strip(line))) >= 2
    /\ Fields(strip(line))[1] = <<"HEADER">>
    /\ Fields(strip(line))[2] = header

HeadersAt(header) == {i \in 1..Len(lines) : HeaderLine(lines[i], header)}

\* the input has a CLIENT_LIST header, and ROUTING_TABLE headers only before it
RoutingOnlyBeforeClient ==
    /\ HeadersAt(CLIENT_LIST) # {}
    /\ HeadersAt(ROUTING_TABLE) # {}
    /\ \A r \in HeadersAt(ROUTING_TABLE) :
           \A c \in HeadersAt(CLIENT_LIST) : r < c

C15_SectionOrder ==
    /\ \A j \in Events :
           (log[j].op = "expect_header" /\ log[j].section = ROUTING_TABLE) =>
               \E i \in 1..(j - 1) :
                   log[i].section = CLIENT_LIST /\ log[i].outcome = "end"
    /\ \A i, j \in Events : i <= j => log[i].pos <= log[j].pos
    /\ \A j \in Events :
           (log[j].op = "expect_header" /\ log[j].section = CLIENT_LIST
                /\ ~log[j].stop /\ HeaderLine(log[j].line, ROUTING_TABLE)) =>
               log[j].outcome = "skip"
    /\ RoutingOnlyBeforeClient =>
           /\ status.routing_table = <<>>
           /\ Finished => pc = "raised"

-----------------------------------------------------------------------------
(* C16: the engine holds no state once parse has returned or raised: when   *)
(* parse returns a Status no rollback is pending, so a further advance of   *)
(* the cursor would not re-return a line that was already read.             *)

\* C16 as claimed: the rollback mark is clear when parse has returned
C16_NoPendingRollback == pc = "returned" => ~_rollback

\* the line the cursor returned last
LastLineReturned ==
    LET got == {i \in Events : ~log[i].stop}
    IN  log[CHOOSE i \in got : \A m \in got : m <= i].line

\* C16 as the code has it: parse returns with the mark set by the rollback that
\* ended the Routing section, so a further advance re-returns the line the
\* cursor returned last and pulls nothing; the mark is clear when parse raised.
C16_PendingRollback ==
    /\ pc = "returned" =>
           /\ _rollback
           /\ ~LogParser_next.stop
           /\ LogParser_next.line = LastLineReturned
           /\ LogParser_next.pos = pos
    /\ pc = "raised" => ~_rollback

\* parse returned after the Routing section met a line that is no row of it
C16_Witness ==
    /\ pc = "returned"
    /\ ~log[Len(log)].stop
    /\ status.routing_table # <<>>

-----------------------------------------------------------------------------
(* C17: insertion order.  In the returned Status the keys of client_list    *)
(* (and of routing_table) stand in the order in which their common names    *)
(* first appear among the rows of that section, also when a later row with  *)
(* the same common name overwrites the value.                               *)

FirstRowNamed(section, name) ==
    CHOOSE i \in RowsOf(section) :
        /\ CommonNameOf(i) = name
        /\ \A m \in RowsOf(section) : CommonNameOf(m) = name => i <= m

C17_InsertionOrder ==
    \A section \in Sections :
        SectionEnded(section) =>
            LET m == Mapping(section)
            IN  /\ {m[j].key : j \in 1..Len(m)}
                       = {CommonNameOf(i) : i \in RowsOf(section)}
                /\ \A a, b \in 1..Len(m) :
                       a < b => FirstRowNamed(section, m[a].key)
                                    < FirstRowNamed(section, m[b].key)

\* rows for alice, bob and alice again were read: alice stays ahead of bob and
\* holds the later row
C17_Witness ==
    /\ SectionEnded(CLIENT_LIST)
    /\ \E i, j, k \in RowsOf(CLIENT_LIST) :
           /\ i < j /\ j < k
           /\ log[i].line = RCalice /\ log[j].line = RCbob /\ log[k].line = RCalice2
    /\ dict_keys(status.client_list) = << <<"alice">>, <<"bob">> >>
    /\ dict_get(status.client_list, <<"alice">>).bytes_received.val = <<"300">>

-----------------------------------------------------------------------------
(* C18: each input line is interpreted at most once.  A line decoded as a   *)
(* row of the Client section is never presented again by the cursor and     *)
(* accepted as the ROUTING_TABLE header, also when the Client section ends  *)
(* at the end of the input and the engine rolls back.                       *)

C18_LineReadOnce ==
    \A i, j \in Events :
        (/\ i < j
         /\ log[i].op = "expect_list" /\ log[i].section = CLIENT_LIST
         /\ log[i].outcome = "row"
         /\ log[j].op = "expect_header" /\ log[j].section = ROUTING_TABLE
         /\ log[j].outcome = "header") =>
            log[i].pos # log[j].pos

-----------------------------------------------------------------------------
(* C19: in every state reached during parse a pending rollback implies that *)
(* the cursor has already returned a line: the mark is never set while the  *)
(* stored last line is undefined, so the advance after a rollback returns a *)
(* line of the input.                                                       *)

C19_RollbackHasLine ==
    _rollback =>
        /\ _last_line # NoLine
        /\ \E i \in Events : ~log[i].stop /\ log[i].line = _last_line
        /\ ~LogParser_next.stop
        /\ \E q \in 1..Len(lines) : CoreOf(lines[q], LogParser_next.line)

\* the Client section has ended and its rollback is pending
C19_Witness ==
    /\ pc = "routing_header"
    /\ _rollback
    /\ _last_line # NoLine

====
